---- MODULE Spec2Model ----
(***************************************************************************)
(* Leaderboard server (src/server/server.js): an Express application over  *)
(* two Mongoose collections, User (players) and PointHistory (award        *)
(* records).  Every `await` of a handler is a point where other handlers   *)
(* may run, so each handler is split into one action per store operation.  *)
(***************************************************************************)
EXTENDS Integers, Sequences, FiniteSets, Bags

(* ---------------------------------------------------------------- bounds *)

\* Number of POST /claim-points requests issued in one behaviour.
MaxClaims == 2

\* Claim requests name the ids 0..ClaimTargets; id 0 is never allocated.
ClaimTargets == 2

\* Number of players created through POST /users in one behaviour.
MaxRegisters == 1

\* Math.random() is modelled as the rational num / RandomDen, 0 <= num < RandomDen.
RandomDen == 10

(* ------------------------------------------------------------- constants *)

\* Math.floor(Math.random() * 10) + 1
DrawScale == 10
DrawOffset == 1

initialUsers ==
  << "Rahul", "Kamal", "Sanak", "Amit", "Priya",
     "Neha", "Vikas", "Anjali", "Rohit", "Simran" >>

VARIABLES
  users,     \* the User collection, in insertion order; users[i].id = i
  history,   \* the PointHistory collection, in insertion order
  seed,      \* position of the connection 'open' callback
  req,       \* the bag of POST /claim-points handlers waiting on the store
  started,   \* the number of POST /claim-points requests received so far
  out        \* the response the last step sent (NoOut when it sent none)

vars == << users, history, seed, req, started, out >>

(* ------------------------------------------------------------ the models *)

\* models/User.js: username is required, points defaults to 0.
NewUser(id, username) == [id |-> id, username |-> username, points |-> 0]

\* models/User.js: the `required` validator of username.
ValidUsername(input) == input.present

\* models/PointHistory.js: timestamp defaults to the time of creation; the
\* clock is the number of records created so far.
NewPointHistory(userId, pointsAwarded, now) ==
  [userId |-> userId, pointsAwarded |-> pointsAwarded, timestamp |-> now]

NullDoc == [id |-> 0, points |-> 0]
NoOut == [op |-> "", status |-> 0, body |-> << >>]

\* A handler waiting on the store: where it waits (pc), its draw and the
\* document it holds.
Handler(pc, pointsAwarded, doc) ==
  [pc |-> pc, pointsAwarded |-> pointsAwarded, doc |-> doc]

Handlers == BagToSet(req)

\* The bag of handlers once h has gone on as g, or has returned.
Resumed(h, g) == (req (-) SetToBag({h})) (+) SetToBag({g})
Returned(h) == req (-) SetToBag({h})

(* ----------------------------------------------------------- pure helpers *)

\* The values Math.random() takes in the model: the least and the greatest.
RandomNums == {0, RandomDen - 1}

\* Mutant of DrawPoints: Math.ceil(Math.random() * 10), which is 0 for a draw of 0.
DrawPointsCeil(num) == (num * DrawScale + RandomDen - 1) \div RandomDen

\* Math.floor(Math.random() * 10) + 1, with Math.random() = num / RandomDen
DrawPoints(num) == ((num * DrawScale) \div RandomDen) + DrawOffset

\* User.findById(id): the stored document with that _id, or null.
IndexOf(coll, id) ==
  IF \E i \in 1..Len(coll) : coll[i].id = id
    THEN CHOOSE i \in 1..Len(coll) : coll[i].id = id
    ELSE 0

\* Mutant of findById: findOne semantics, any document when none has the id.
findByIdOrAny(coll, id) ==
  IF IndexOf(coll, id) # 0
    THEN [id |-> id, points |-> coll[IndexOf(coll, id)].points]
    ELSE IF coll = << >> THEN NullDoc ELSE [id |-> coll[1].id, points |-> coll[1].points]

findById(coll, id) ==
  IF IndexOf(coll, id) = 0
    THEN NullDoc
    ELSE [id |-> id, points |-> coll[IndexOf(coll, id)].points]

\* Mutant of InsertByPoints: .sort({ points: 1 }), ascending.
InsertByPointsAscending(sorted, u) ==
  LET k == Cardinality({i \in 1..Len(sorted) : sorted[i].points <= u.points})
  IN  SubSeq(sorted, 1, k) \o << u >> \o SubSeq(sorted, k + 1, Len(sorted))

\* .sort({ points: -1 }): u goes after every document whose points is >= its own.
InsertByPoints(sorted, u) ==
  LET k == Cardinality({i \in 1..Len(sorted) : sorted[i].points >= u.points})
  IN  SubSeq(sorted, 1, k) \o << u >> \o SubSeq(sorted, k + 1, Len(sorted))

RECURSIVE SortByPoints(_)
SortByPoints(coll) ==
  IF coll = << >>
    THEN << >>
    ELSE InsertByPoints(SortByPoints(SubSeq(coll, 1, Len(coll) - 1)), coll[Len(coll)])

\* .sort({ timestamp: -1 })
InsertByTimestamp(sorted, h) ==
  LET k == Cardinality({i \in 1..Len(sorted) : sorted[i].timestamp >= h.timestamp})
  IN  SubSeq(sorted, 1, k) \o << h >> \o SubSeq(sorted, k + 1, Len(sorted))

RECURSIVE SortByTimestamp(_)
SortByTimestamp(coll) ==
  IF coll = << >>
    THEN << >>
    ELSE InsertByTimestamp(SortByTimestamp(SubSeq(coll, 1, Len(coll) - 1)), coll[Len(coll)])

\* .populate('userId', 'username'): the reference becomes { _id, username }
\* when a player with that id is stored.
Populate(h) ==
  IF IndexOf(users, h.userId) = 0
    THEN [userId |-> h.userId, username |-> "", pointsAwarded |-> h.pointsAwarded,
          timestamp |-> h.timestamp]
    ELSE [userId |-> h.userId, username |-> users[IndexOf(users, h.userId)].username,
          pointsAwarded |-> h.pointsAwarded, timestamp |-> h.timestamp]

SeedDocs(base) ==
  [i \in 1..Len(initialUsers) |-> NewUser(base + i, initialUsers[i])]

IsRegistered(u) == \A i \in 1..Len(initialUsers) : initialUsers[i] # u.username

NumRegistered == Len(SelectSeq(users, IsRegistered))

(* ------------------------------------------------------------------ Init *)

Init ==
  /\ users = << >>
  /\ history = << >>
  /\ seed = "boot"
  /\ req = EmptyBag
  /\ started = 0
  /\ out = NoOut

(* -------------------------------------------------------------- seeding *)

\* Mutant of SeedCount: the count is not tested, start-up always inserts.
SeedCountUntested ==
  /\ seed = "boot"
  /\ seed' = "insert"
  /\ out' = NoOut
  /\ UNCHANGED << users, history, req, started >>

\* const count = await User.countDocuments(); if (count === 0) ...
SeedCount ==
  /\ seed = "boot"
  /\ seed' = IF Len(users) = 0 THEN "insert" ELSE "done"
  /\ out' = NoOut
  /\ UNCHANGED << users, history, req, started >>

\* await User.insertMany(initialUsers.map(username => ({ username })))
SeedInsert ==
  /\ seed = "insert"
  /\ users' = users \o SeedDocs(Len(users))
  /\ seed' = "done"
  /\ out' = NoOut
  /\ UNCHANGED << history, req, started >>

(* ------------------------------------------------------------ GET /users *)

GetUsers ==
  /\ out' = [op |-> "GET /users", status |-> 200, body |-> SortByPoints(users)]
  /\ UNCHANGED << users, history, seed, req, started >>

GetUsersFail ==
  /\ out' = [op |-> "GET /users", status |-> 500, body |-> << >>]
  /\ UNCHANGED << users, history, seed, req, started >>

(* ----------------------------------------------------------- POST /users *)

RegisterInputs ==
  { [present |-> TRUE, username |-> "Test"], [present |-> FALSE, username |-> ""] }

\* Mutant of PostUsers: the new player takes the id of the last stored one.
PostUsersReusedId(input) ==
  /\ NumRegistered < MaxRegisters
  /\ ValidUsername(input)
  /\ users' = Append(users, NewUser(Len(users), input.username))
  /\ out' = [op |-> "POST /users", status |-> 201,
             body |-> << NewUser(Len(users), input.username) >>]
  /\ UNCHANGED << history, seed, req, started >>

PostUsers(input) ==
  /\ NumRegistered < MaxRegisters
  /\ ValidUsername(input)
  /\ users' = Append(users, NewUser(Len(users) + 1, input.username))
  /\ out' = [op |-> "POST /users", status |-> 201,
             body |-> << NewUser(Len(users) + 1, input.username) >>]
  /\ UNCHANGED << history, seed, req, started >>

\* user.save() rejects: validation (an invalid input) or the store (any input).
PostUsersFail(input) ==
  /\ out' = [op |-> "POST /users", status |-> 400, body |-> << >>]
  /\ UNCHANGED << users, history, seed, req, started >>

(* ----------------------------------------------------- GET /point-history *)

GetPointHistory ==
  /\ out' = [op |-> "GET /point-history", status |-> 200,
             body |-> [i \in 1..Len(history) |-> Populate(SortByTimestamp(history)[i])]]
  /\ UNCHANGED << users, history, seed, req, started >>

GetPointHistoryFail ==
  /\ out' = [op |-> "GET /point-history", status |-> 500, body |-> << >>]
  /\ UNCHANGED << users, history, seed, req, started >>

(* ----------------------------------------------------- POST /claim-points *)

\* res.status(500).json({ error: error.message })
Error500 ==
  [op |-> "POST /claim-points", status |-> 500, body |-> << [error |-> "error"] >>]

\* res.status(404).json({ error: 'User not found' })
NotFound404 ==
  [op |-> "POST /claim-points", status |-> 404,
   body |-> << [error |-> "User not found"] >>]

\* Mutant of AddPoints: the addition is left out.
AddPointsOmitted(user, pointsAwarded) == user

\* The document the handler holds after `user.points += pointsAwarded`.
AddPoints(user, pointsAwarded) == [user EXCEPT !.points = user.points + pointsAwarded]

\* Mutant of ClaimResponse: totalPoints is the total before the award.
ClaimResponseBefore(pointsAwarded, user) ==
  [op |-> "POST /claim-points", status |-> 200,
   body |-> << [pointsAwarded |-> pointsAwarded,
                totalPoints |-> user.points - pointsAwarded] >>]

\* res.json({ pointsAwarded, totalPoints: user.points })
ClaimResponse(pointsAwarded, user) ==
  [op |-> "POST /claim-points", status |-> 200,
   body |-> << [pointsAwarded |-> pointsAwarded, totalPoints |-> user.points] >>]

\* Mutant of SavePoints: the write is not filtered by _id.
SavePointsUnfiltered(coll, doc) ==
  [i \in 1..Len(coll) |-> [coll[i] EXCEPT !.points = doc.points]]

\* user.save(): writes the document's modified path, points, to the stored player.
SavePoints(coll, doc) ==
  [i \in 1..Len(coll) |->
     IF coll[i].id = doc.id THEN [coll[i] EXCEPT !.points = doc.points] ELSE coll[i]]

\* Lines 63-71: the draw, the lookup, the 404 return or the local addition.
ClaimFind(userId, num) ==
  /\ started < MaxClaims
  /\ started' = started + 1
  /\ LET pointsAwarded == DrawPoints(num)
         user == findById(users, userId)
     IN  IF user = NullDoc
           THEN /\ req' = req
                /\ out' = NotFound404
           ELSE /\ req' = req (+) SetToBag(
                     {Handler("saving", pointsAwarded, AddPoints(user, pointsAwarded))})
                /\ out' = NoOut
  /\ UNCHANGED << users, history, seed >>

\* findById rejects (the id cannot be cast, the store is unavailable): catch, 500.
ClaimFindFail(userId, num) ==
  /\ started < MaxClaims
  /\ started' = started + 1
  /\ out' = Error500
  /\ UNCHANGED << users, history, seed, req >>

\* Line 72: await user.save()
ClaimSave(h) ==
  /\ h.pc = "saving"
  /\ users' = SavePoints(users, h.doc)
  /\ req' = Resumed(h, Handler("creating", h.pointsAwarded, h.doc))
  /\ out' = NoOut
  /\ UNCHANGED << history, seed, started >>

ClaimSaveFail(h) ==
  /\ h.pc = "saving"
  /\ req' = Returned(h)
  /\ out' = Error500
  /\ UNCHANGED << users, history, seed, started >>

\* Lines 75-80: await PointHistory.create(...), then the response.
ClaimCreate(h) ==
  /\ h.pc = "creating"
  /\ history' = Append(history,
       NewPointHistory(h.doc.id, h.pointsAwarded, Len(history) + 1))
  /\ req' = Returned(h)
  /\ out' = ClaimResponse(h.pointsAwarded, h.doc)
  /\ UNCHANGED << users, seed, started >>

\* Mutant of ClaimCreateFail: the rejection is swallowed and success is reported.
ClaimCreateFailSwallowed(h) ==
  /\ h.pc = "creating"
  /\ req' = Returned(h)
  /\ out' = ClaimResponse(h.pointsAwarded, h.doc)
  /\ UNCHANGED << users, history, seed, started >>

\* PointHistory.create rejects: catch, 500; the saved points stay.
ClaimCreateFail(h) ==
  /\ h.pc = "creating"
  /\ req' = Returned(h)
  /\ out' = Error500
  /\ UNCHANGED << users, history, seed, started >>

(* ------------------------------------------------------------- the process *)

\* The process stops and is started again: the handlers in flight are gone
\* without a response, the collections stay, and the 'open' callback runs anew.
Crash ==
  /\ seed' = "boot"
  /\ req' = EmptyBag
  /\ out' = NoOut
  /\ UNCHANGED << users, history, started >>

Next ==
  \/ SeedCount
  \/ SeedInsert
  \/ GetUsers
  \/ GetUsersFail
  \/ \E input \in RegisterInputs : PostUsers(input)
  \/ \E input \in RegisterInputs : PostUsersFail(input)
  \/ GetPointHistory
  \/ GetPointHistoryFail
  \/ \E userId \in 0..ClaimTargets, num \in RandomNums : ClaimFind(userId, num)
  \/ \E userId \in 0..ClaimTargets, num \in RandomNums : ClaimFindFail(userId, num)
  \/ \E h \in Handlers : ClaimSave(h)
  \/ \E h \in Handlers : ClaimSaveFail(h)
  \/ \E h \in Handlers : ClaimCreate(h)
  \/ \E h \in Handlers : ClaimCreateFail(h)
  \/ Crash

Spec == Init /\ [][Next]_vars

\* Claims one at a time, every store operation succeeding, the process staying up.
NextSeq ==
  \/ SeedCount
  \/ SeedInsert
  \/ GetUsers
  \/ \E input \in RegisterInputs : PostUsers(input)
  \/ GetPointHistory
  \/ \E userId \in 0..ClaimTargets, num \in RandomNums :
       req = EmptyBag /\ ClaimFind(userId, num)
  \/ \E h \in Handlers : ClaimSave(h)
  \/ \E h \in Handlers : ClaimCreate(h)

SpecSeq == Init /\ [][NextSeq]_vars

(* ------------------------------------------------- GET /users on any store *)

ListLen == 3
ListMaxPoints == 2

\* Every store of at most ListLen players with points in 0..ListMaxPoints.
ListStores ==
  UNION { [1..n -> [id : {0}, username : {"Test"}, points : 0..ListMaxPoints]] :
          n \in 0..ListLen }

WithIds(coll) == [i \in 1..Len(coll) |-> [coll[i] EXCEPT !.id = i]]

InitList ==
  /\ users \in { WithIds(coll) : coll \in ListStores }
  /\ history = << >>
  /\ seed = "done"
  /\ req = EmptyBag
  /\ started = 0
  /\ out = NoOut

NextList ==
  \/ GetUsers
  \/ GetUsersFail
  \/ GetPointHistory

SpecList == InitList /\ [][NextList]_vars

(* ---------------------------------------------------------------- claims *)

RECURSIVE SumAwards(_, _)
SumAwards(records, id) ==
  IF records = << >>
    THEN 0
    ELSE (IF Head(records).userId = id THEN Head(records).pointsAwarded ELSE 0)
         + SumAwards(Tail(records), id)

NumAwards(records, id) == Len(SelectSeq(records, LAMBDA h : h.userId = id))

Range(f) == { f[i] : i \in DOMAIN f }

ClaimOut(status) == out.op = "POST /claim-points" /\ out.status = status

\* C1: with claims one at a time and no failing store write, whenever no claim
\* is under way each player's points is the sum of pointsAwarded over the
\* player's AwardRecords (0 without records).
C1_PointsEqualAwards ==
  req = EmptyBag =>
    \A i \in 1..Len(users) : users[i].points = SumAwards(history, users[i].id)

C1_Witness ==
  /\ req = EmptyBag
  /\ \E i \in 1..Len(users) :
       /\ NumAwards(history, users[i].id) = 2
       /\ users[i].points = SumAwards(history, users[i].id)
       /\ users[i].points > 0

\* C2: a claim whose userId is the id of no stored player is answered 404
\* 'User not found', and the step that answers 404 changes no player, creates
\* none, adds no AwardRecord and leaves no handler behind that could.
C2_NotFoundNoMutation ==
  [][ /\ \A userId \in 0..ClaimTargets, num \in RandomNums :
           (ClaimFind(userId, num) /\ \A i \in 1..Len(users) : users[i].id # userId)
             => out' = NotFound404
      /\ (out'.op = "POST /claim-points" /\ out'.status = 404)
           => /\ out'.body = << [error |-> "User not found"] >>
              /\ started' = started + 1
              /\ UNCHANGED << users, history, req >> ]_vars

C2_Witness ==
  /\ ClaimOut(404)
  /\ Len(users) > 0
  /\ Len(history) > 0

\* C3: when every claim received has succeeded and none is under way, a
\* player's points is at most the sum of the player's recorded pointsAwarded
\* (and at least 1 once the player has a record); the witness is the lost
\* update, where it is strictly less.
C3_PointsAtMostAwards ==
  (req = EmptyBag /\ Len(history) = started) =>
    \A i \in 1..Len(users) :
      /\ users[i].points <= SumAwards(history, users[i].id)
      /\ NumAwards(history, users[i].id) > 0 => users[i].points >= 1

C3_LostUpdate ==
  /\ req = EmptyBag
  /\ started = 2
  /\ Len(history) = 2
  /\ \E i \in 1..Len(users) :
       /\ NumAwards(history, users[i].id) = 2
       /\ users[i].points < SumAwards(history, users[i].id)

\* C4: the lookup of a claim holds p + pointsAwarded for the stored points p it
\* read; the save writes that to the claimed player alone; the successful
\* return reports pointsAwarded and totalPoints = p + pointsAwarded and appends
\* exactly one AwardRecord with that pointsAwarded and that player's id,
\* leaving the earlier records and every player as they were.
C4_ClaimEffect ==
  [][ /\ \A g \in BagToSet(req') :
           (started' = started + 1 /\ req' = req (+) SetToBag({g}))
             => /\ g.pc = "saving"
                /\ \E i \in 1..Len(users) :
                     /\ users[i].id = g.doc.id
                     /\ g.doc.points = users[i].points + g.pointsAwarded
                /\ UNCHANGED << users, history >>
      /\ \A h \in Handlers :
           (h.pc = "saving" /\ req' = Resumed(h, [h EXCEPT !.pc = "creating"]))
             => /\ Len(users') = Len(users)
                /\ \A i \in 1..Len(users) :
                     IF users[i].id = h.doc.id
                       THEN users'[i] = [users[i] EXCEPT !.points = h.doc.points]
                       ELSE users'[i] = users[i]
                /\ history' = history
      /\ \A h \in Handlers :
           (req' = Returned(h) /\ out'.op = "POST /claim-points" /\ out'.status = 200)
             => /\ h.pc = "creating"
                /\ out'.body = << [pointsAwarded |-> h.pointsAwarded,
                                   totalPoints |-> h.doc.points] >>
                /\ Len(history') = Len(history) + 1
                /\ SubSeq(history', 1, Len(history)) = history
                /\ history'[Len(history')].pointsAwarded = h.pointsAwarded
                /\ history'[Len(history')].userId = h.doc.id
                /\ users' = users ]_vars

C4_Witness ==
  /\ ClaimOut(200)
  /\ Len(history) = 2
  /\ out.body[1].totalPoints > out.body[1].pointsAwarded
  /\ history[2].pointsAwarded = out.body[1].pointsAwarded

\* C5: every AwardRecord, every handler under way and every successful claim
\* response carries a pointsAwarded in 1..10.
C5_DrawInRange ==
  /\ \A k \in 1..Len(history) : history[k].pointsAwarded \in 1..10
  /\ \A h \in Handlers : h.pointsAwarded \in 1..10
  /\ ClaimOut(200) => out.body[1].pointsAwarded \in 1..10

C5_Witness ==
  /\ ClaimOut(200)
  /\ \E k \in 1..Len(history) : history[k].pointsAwarded = 1
  /\ \E k \in 1..Len(history) : history[k].pointsAwarded = 10

\* C6: no step lowers the stored points of a player.
C6_PointsNeverDecrease ==
  [][ \A i \in 1..Len(users) : users'[i].points >= users[i].points ]_vars

\* C7: the save of a claim persists the player's points before any record
\* exists; when the handler then ends without inserting its AwardRecord (the
\* insert failed, or the process stopped) the players are left as saved, no
\* record is added, and the response is the 500 error or none at all, never a
\* success.
C7_NoRollback ==
  [][ \A h \in Handlers :
        /\ (h.pc = "saving" /\ req' = Resumed(h, [h EXCEPT !.pc = "creating"]))
             => /\ \E i \in 1..Len(users') :
                     users'[i].id = h.doc.id /\ users'[i].points = h.doc.points
                /\ history' = history
        /\ (h.pc = "creating" /\ CopiesIn(h, req') < CopiesIn(h, req)
              /\ history' = history)
             => /\ users' = users
                /\ out' \in {Error500, NoOut}
                /\ (out' = NoOut => seed' = "boot") ]_vars

C7_Witness ==
  /\ ClaimOut(500)
  /\ req = EmptyBag
  /\ started = 1
  /\ history = << >>
  /\ \E i \in 1..Len(users) : users[i].points > 0

\* C8: start-up that counts no player inserts exactly the ten named players
\* with points 0 after whatever is stored by then, and GET /users once start-up
\* is over, before any registration or claim, returns exactly those ten;
\* start-up that counts a player inserts nothing and changes no player.
TenNames ==
  << "Rahul", "Kamal", "Sanak", "Amit", "Priya",
     "Neha", "Vikas", "Anjali", "Rohit", "Simran" >>

C8_Seeding ==
  [][ /\ (seed = "boot" /\ seed' # "boot")
           => /\ users' = users
              /\ seed' = "insert" <=> Len(users) = 0
      /\ (seed = "insert" /\ seed' = "done")
           => /\ Len(users') = Len(users) + 10
              /\ SubSeq(users', 1, Len(users)) = users
              /\ \A k \in 1..10 :
                   /\ users'[Len(users) + k].username = TenNames[k]
                   /\ users'[Len(users) + k].points = 0
                   /\ \A i \in 1..Len(users') :
                        users'[i].id = users'[Len(users) + k].id => i = Len(users) + k
      /\ (seed # "insert" /\ Len(users') > Len(users))
           => out'.op = "POST /users"
      /\ (out'.op = "GET /users" /\ out'.status = 200 /\ seed = "done"
            /\ started = 0 /\ NumRegistered = 0)
           => /\ Len(out'.body) = 10
              /\ { [username |-> u.username, points |-> u.points] : u \in Range(out'.body) }
                   = { [username |-> TenNames[k], points |-> 0] : k \in 1..10 } ]_vars

C8_Witness ==
  /\ seed = "done"
  /\ out.op = "GET /users" /\ out.status = 200
  /\ Len(out.body) = 10
  /\ \A k \in 1..10 : out.body[k].username = TenNames[k] /\ out.body[k].points = 0

\* C9: a successful GET /users returns every stored player exactly once, each
\* with at least the points of the one after it, and changes neither the
\* players nor the AwardRecords.
C9_ListSorted ==
  [][ (out'.op = "GET /users" /\ out'.status = 200)
        => /\ Len(out'.body) = Len(users)
           /\ \A i \in 1..Len(users) :
                Cardinality({k \in 1..Len(out'.body) : out'.body[k] = users[i]}) = 1
           /\ \A k \in 1..(Len(out'.body) - 1) :
                out'.body[k].points >= out'.body[k + 1].points
           /\ UNCHANGED << users, history >> ]_vars

C9_Witness ==
  /\ out.op = "GET /users" /\ out.status = 200
  /\ Len(users) = 3
  /\ users[1].points < users[2].points
  /\ users[2].points < users[3].points
  /\ out.body = << users[3], users[2], users[1] >>

\* C10: a successful POST /users adds exactly one player, with the username
\* given, points 0 and an id no stored player has, changes no stored player
\* and no AwardRecord, and GET /users on the resulting store lists the new
\* player with points 0.
C10_RegisterEffect ==
  [][ /\ (out'.op = "POST /users" /\ out'.status = 201)
           => /\ Len(users') = Len(users) + 1
              /\ SubSeq(users', 1, Len(users)) = users
              /\ users'[Len(users')].points = 0
              /\ \A i \in 1..Len(users) : users[i].id # users'[Len(users')].id
              /\ out'.body = << users'[Len(users')] >>
              /\ history' = history
              /\ \E k \in 1..Len(users') :
                   /\ SortByPoints(users')[k] = users'[Len(users')]
                   /\ SortByPoints(users')[k].points = 0
      /\ \A input \in RegisterInputs :
           PostUsers(input)
             => /\ out'.status = 201
                /\ users'[Len(users')].username = input.username ]_vars

C10_Witness ==
  /\ out.op = "POST /users" /\ out.status = 201
  /\ Len(users) = 11
  /\ users[11].username = "Test"
  /\ Len(history) > 0

====
